---- MODULE Spec2Model ----
(***************************************************************************)
(* Cross-chain root-propagation relayer (scroll-service).                  *)
(*                                                                         *)
(* The module models                                                       *)
(*   - the persisted status row (database/query.rs),                       *)
(*   - the bridge oracle's is_root_mined and propagate_root                *)
(*     (contracts/mod.rs) and the write endpoint behind it                 *)
(*     (ethereum/mod.rs),                                                  *)
(*   - Processor::await_clean_slate (processor/mod.rs),                    *)
(*   - the two scheduler loops check_sync and propagate_root               *)
(*     (task_monitor/tasks), one action per suspension point of each loop, *)
(*   - the block scanner as processor/mod.rs builds and calls it,          *)
(*   - the constructor of the oracle, ScrollBridge::new.                   *)
(*                                                                         *)
(* Seven specifications share the variables:                               *)
(*   Spec        the scheduler with the chain and the mining consumer,     *)
(*   SpecLive    the same without failing calls, scheduled fairly, booted  *)
(*               onto whatever an earlier run left,                        *)
(*   SpecSlate   await_clean_slate on every state of the write endpoint,   *)
(*   SpecStore   the status store driven by arbitrary requests,            *)
(*   SpecOracle  is_root_mined asked in every state of the registries,     *)
(*   SpecScan    one scanner under concurrent callers and a growing chain, *)
(*   SpecConnect ScrollBridge::new on every configuration and answer.      *)
(***************************************************************************)
EXTENDS Integers, Sequences, FiniteSets, TLC

VARIABLES
    \* ---- durable store: table service_status, row id = position
    dbRows,
    now,
    lastTo,
    readResult,
    initCalls,
    insertCalls,
    \* ---- chains
    worldIdLatest,
    scrollLatest,
    canonRoot,
    rootHistory,
    included,
    \* ---- write endpoint
    pending,
    nextNonce,
    \* ---- Processor::await_clean_slate
    acsPc,
    pending_identities,
    \* ---- scheduler
    wake_up_notify,
    monitored_txs,
    ckPc,
    world_id_root,
    is_synced,
    is_pending,
    ckLog,
    prPc,
    is_unsynced,
    prRead,
    tx_id,
    prLog,
    prSlept,
    everRaised,
    iterSinceWake,
    callsAfterWake,
    \* ---- oracle query
    qRoot,
    qResult,
    qPc,
    root_timestamp,
    qSeen,
    \* ---- block scanner
    chainHead,
    scanner,
    scLock,
    scPc,
    scRange,
    scResult,
    scRanges,
    scRetryFrom,
    \* ---- ScrollBridge::new
    connIn,
    connPc,
    connLog,
    connResult

vars == << dbRows, now, lastTo, readResult, initCalls, insertCalls, worldIdLatest, scrollLatest, canonRoot,
           rootHistory, included, pending, nextNonce, acsPc,
           pending_identities, wake_up_notify,
           monitored_txs, ckPc, world_id_root, is_synced, is_pending, ckLog, prPc,
           is_unsynced, prRead, tx_id, prLog, prSlept, everRaised, iterSinceWake,
           callsAfterWake,
           qRoot, qResult, qPc, root_timestamp, qSeen, chainHead, scanner, scLock, scPc, scRange,
           scResult, scRanges, scRetryFrom, connIn, connPc, connLog,
           connResult >>

storeVars == << dbRows, lastTo, readResult, initCalls, insertCalls >>
chainVars == << worldIdLatest, scrollLatest, canonRoot, rootHistory, included >>
endpointVars == << pending, nextNonce >>
checkerVars == << ckPc, world_id_root, is_synced, is_pending, ckLog >>
propagatorVars == << prPc, is_unsynced, prRead, tx_id, prLog, prSlept >>
wakeVars == << wake_up_notify, everRaised, iterSinceWake, callsAfterWake >>
queryVars == << qRoot, qResult, qPc, root_timestamp, qSeen >>
slateVars == << acsPc, pending_identities >>
scanVars == << chainHead, scanner, scLock, scPc, scRange, scResult, scRanges,
              scRetryFrom >>
connVars == << connIn, connPc, connLog, connResult >>
auxVars == << scanVars, connVars, slateVars >>

(***************************************************************************)
(* Bounds of the model.                                                    *)
(***************************************************************************)
MaxTime == 3
MaxRoot == 2
MaxTx == 3
MaxChan == 2
MaxInit == 3
MaxInsert == 2
MaxHead == 5
MaxBootHead == 2
MaxWindow == 2
MaxOffset == 2
MaxCallers == 2
MaxAddr == 2

Roots == 0 .. MaxRoot
Times == 1 .. MaxTime
Heads == 0 .. MaxHead
Callers == 1 .. MaxCallers
Addresses == 1 .. MaxAddr

\* the transaction ids handed out so far
TxIds == 1 .. nextNonce

\* NULL of the last_synced column (Option::None) and the zero root (U256
\* zero, the "never recorded" answer of the registries).
NoTimestamp == 0
ZeroRoot == 0

\* "no transaction id yet": the write endpoint hands out 1, 2, 3, ...
NoTx == 0

\* "no query yet": a value outside Roots.
NoQuery == MaxRoot + 1

\* "no root read yet": a value outside Roots.
NoRoot == MaxRoot + 1

\* "no block" and "no caller": values outside Heads and Callers.
NoBlock == MaxHead + 1
NoCaller == MaxCallers + 1

\* a contract call that answered with an error: a value outside Addresses.
CallFailed == MaxAddr + 1

(***************************************************************************)
(* BridgeStatus and its string form, as bound into the queries.            *)
(***************************************************************************)
BridgeStatus == { "Unsynced", "Pending", "Synced" }

StatusStr(status) ==
    CASE status = "Unsynced" -> "unsynced"
      [] status = "Pending" -> "pending"
      [] status = "Synced" -> "synced"

(***************************************************************************)
(* database/query.rs: each operator is one query on the table.             *)
(***************************************************************************)
ServerStatus(status, last_synced) ==
    [ status |-> status, last_synced |-> last_synced ]

\* INSERT INTO service_status (status, last_synced) VALUES ($1, CURRENT_TIMESTAMP)
initialize_server(rows, t) ==
    Append(rows, ServerStatus(StatusStr("Unsynced"), t))

\* (the existence query always answers false)
server_initialized_never(rows) ==
    FALSE

\* select EXISTS (select id from service_status where id = 1)
server_initialized(rows) ==
    Len(rows) >= 1

\* (every transition stamps the timestamp)
update_server_status_stamp(rows, status, t) ==
    IF Len(rows) = 0 THEN rows
    ELSE [ rows EXCEPT ![1] = ServerStatus(StatusStr(status), t) ]

\* UPDATE service_status SET status = $1 [, last_synced = CURRENT_TIMESTAMP]
\* WHERE id = 1
update_server_status(rows, status, t) ==
    IF Len(rows) = 0 THEN rows
    ELSE IF status = "Synced"
         THEN [ rows EXCEPT ![1] = ServerStatus(StatusStr(status), t) ]
         ELSE [ rows EXCEPT ![1] = [ @ EXCEPT !.status = StatusStr(status) ] ]

NoRow == [ status |-> "none", last_synced |-> NoTimestamp ]

\* SELECT status, last_synced FROM service_status WHERE id = 1
get_service_status(rows) ==
    IF Len(rows) = 0 THEN NoRow ELSE rows[1]

\* SELECT status FROM service_status WHERE id = 1
get_db_status(rows) ==
    IF Len(rows) = 0 THEN "none" ELSE rows[1].status

(***************************************************************************)
(* The store's interface as the scheduler uses it (the Database wrapper    *)
(* over the queries above).  lastTo remembers the latest transition        *)
(* request, "none" before the first one; initCalls counts the initialize   *)
(* requests (one per boot of the service), insertCalls the calls of        *)
(* initialize_server made past the wrapper.                                *)
(***************************************************************************)
Database_initialize(rows, t) ==
    IF server_initialized(rows) THEN rows ELSE initialize_server(rows, t)

Transition(to) ==
    /\ dbRows' = update_server_status(dbRows, to, now)
    /\ lastTo' = to
    /\ UNCHANGED << readResult, initCalls, insertCalls >>

mark_status_as_synced == Transition("Synced")
mark_status_as_unsynced == Transition("Unsynced")
mark_status_as_pending == Transition("Pending")

check_if_propagated(rows) == get_db_status(rows) = StatusStr("Pending")
check_if_unsynced(rows) == get_db_status(rows) = StatusStr("Unsynced")

(***************************************************************************)
(* contracts/mod.rs: the oracle's reads.                                   *)
(*   canonRoot[r]    first field of WorldId.queryRoot(r): r when the       *)
(*                   canonical registry has recorded r, else zero          *)
(*   rootHistory[r]  ScrollWorldId.rootHistory(r): timestamp at which r    *)
(*                   was superseded, zero when it never was                *)
(***************************************************************************)
query_root(root) == canonRoot[root]

get_scroll_latest_root == scrollLatest

get_world_id_latest_root == worldIdLatest

\* the registries as one value
Registries == << scrollLatest, canonRoot, rootHistory >>

\* (the canonical registry's answer is never taken as zero)
is_zero_never(root_on_mainnet) ==
    FALSE

\* lines 134-136: root_on_mainnet.is_zero()
is_zero(root_on_mainnet) ==
    root_on_mainnet = ZeroRoot

is_root_mined_ignores_latest(root, timestamp, latest_root) ==
    IF timestamp = 0 THEN FALSE ELSE TRUE

is_root_mined_ignores_history(root, timestamp, latest_root) ==
    IF root # latest_root THEN FALSE ELSE TRUE

\* lines 146-150: the answer from the two values read at the secondary
\* registry, once the canonical registry's answer was not zero
is_root_mined(root, timestamp, latest_root) ==
    IF timestamp = 0 /\ root # latest_root THEN FALSE ELSE TRUE

(***************************************************************************)
(* The write endpoint behind ethereum/mod.rs.  A submission answers with   *)
(* the transaction id and the endpoint's state after it.                   *)
(***************************************************************************)
SubmitResult(id, pend, nonce) ==
    [ id |-> id, pending |-> pend, nextNonce |-> nonce ]

ExistingPending(pend) == CHOOSE id \in pend : \A other \in pend : id <= other

\* submit(tx, onlyOnce) of the write provider
WriteProvider_send_transaction(pend, nonce, only_once) ==
    IF only_once /\ pend # {}
    THEN SubmitResult(ExistingPending(pend), pend, nonce)
    ELSE SubmitResult(nonce + 1, pend \cup { nonce + 1 }, nonce + 1)

\* mine(id) of the write provider: TRUE once the receipt is there
WriteProvider_mine_transaction(id) == id \in included

\* the pending set after mine(id): a resolved entry leaves it
WriteProvider_mined(pend, id) ==
    IF WriteProvider_mine_transaction(id) THEN pend \ { id } ELSE pend

\* listPending of the write provider: the pending ids, oldest first
RECURSIVE WriteProvider_fetch_pending_transactions(_)
WriteProvider_fetch_pending_transactions(pend) ==
    IF pend = {} THEN << >>
    ELSE << ExistingPending(pend) >> \o
         WriteProvider_fetch_pending_transactions(pend \ { ExistingPending(pend) })

Ethereum_send_transaction_not_once(pend, nonce, only_once) ==
    WriteProvider_send_transaction(pend, nonce, FALSE)

\* Ethereum::send_transaction hands tx and only_once to the write provider
Ethereum_send_transaction(pend, nonce, only_once) ==
    WriteProvider_send_transaction(pend, nonce, only_once)

ScrollBridge_propagate_root_twice(pend, nonce) ==
    Ethereum_send_transaction(pend, nonce, FALSE)

\* ScrollBridge::propagate_root: send_transaction(propagate_root_tx, true)
ScrollBridge_propagate_root(pend, nonce) ==
    Ethereum_send_transaction(pend, nonce, TRUE)

\* Processor::propagate_root -> BridgeProcessor::propagate_root
BridgeProcessor_propagate_root(pend, nonce) ==
    ScrollBridge_propagate_root(pend, nonce)

(***************************************************************************)
(* The checker loop, task_monitor/tasks/check_sync.rs.                     *)
(* ckLog lists what the checker wrote and raised in the current tick.      *)
(* everRaised, iterSinceWake and callsAfterWake observe the wake signal:   *)
(* whether it was ever raised, whether a propagator iteration began since  *)
(* the latest raise, and how many propagate_root calls the iterations      *)
(* begun since the latest raise have made.  prLog lists what the current   *)
(* propagator iteration has done so far, prSlept tells whether a sleep     *)
(* has completed since the latest propagate_root call.                     *)
(***************************************************************************)
\* the comparison check_synced_state makes of the two roots it was answered
check_synced_state(world_id_latest_root, scroll_latest_root) ==
    world_id_latest_root = scroll_latest_root

\* the two registries agree at this moment
RootsEqual == check_synced_state(get_world_id_latest_root, get_scroll_latest_root)

check_sync_branch_or(synced, is_pend) ==
    IF synced \/ is_pend THEN "mark_synced" ELSE "mark_unsynced"

\* lines 20-27: which statement follows the two reads
check_sync_branch(synced, is_pend) ==
    IF synced /\ is_pend THEN "mark_synced"
    ELSE IF synced \/ is_pend THEN "tick"
    ELSE "mark_unsynced"

\* Notify::notify_one with no waiter: the single permit is stored
notify_one ==
    /\ wake_up_notify' = TRUE
    /\ everRaised' = TRUE
    /\ iterSinceWake' = FALSE
    /\ callsAfterWake' = 0

CkTick ==
    /\ ckPc \in { "start", "tick" }
    /\ ckPc' = "check_synced"
    /\ ckLog' = << >>
    /\ UNCHANGED << world_id_root, is_synced, is_pending, now, storeVars, chainVars,
                    endpointVars, wakeVars, monitored_txs, propagatorVars,
                    queryVars, auxVars >>

\* check_synced_state, first request: the primary registry's latest root
CkWorldIdRoot ==
    /\ ckPc = "check_synced"
    /\ world_id_root' = get_world_id_latest_root
    /\ ckPc' = "check_synced_scroll"
    /\ UNCHANGED << is_synced, is_pending, ckLog, now, storeVars, chainVars,
                    endpointVars, wakeVars, monitored_txs, propagatorVars,
                    queryVars, auxVars >>

\* check_synced_state, second request: the secondary registry's latest root
\* is compared with the root read before; the function returns
CkCheckSynced ==
    /\ ckPc = "check_synced_scroll"
    /\ is_synced' = check_synced_state(world_id_root, get_scroll_latest_root)
    /\ world_id_root' = NoRoot
    /\ ckPc' = "check_pending"
    /\ UNCHANGED << is_pending, ckLog, now, storeVars, chainVars,
                    endpointVars, wakeVars, monitored_txs, propagatorVars,
                    queryVars, auxVars >>

CkCheckPending ==
    /\ ckPc = "check_pending"
    /\ is_pending' = check_if_propagated(dbRows)
    /\ ckPc' = check_sync_branch(is_synced, is_pending')
    /\ UNCHANGED << world_id_root, is_synced, ckLog, now, storeVars, chainVars,
                    endpointVars, wakeVars, monitored_txs, propagatorVars,
                    queryVars, auxVars >>

CkMarkSynced ==
    /\ ckPc = "mark_synced"
    /\ mark_status_as_synced
    /\ ckLog' = Append(ckLog, "Synced")
    /\ ckPc' = "tick"
    /\ UNCHANGED << world_id_root, is_synced, is_pending, now, chainVars, endpointVars,
                    wakeVars, monitored_txs, propagatorVars, queryVars, auxVars >>

CkMarkUnsynced ==
    /\ ckPc = "mark_unsynced"
    /\ mark_status_as_unsynced
    /\ ckLog' = Append(ckLog, "Unsynced")
    /\ ckPc' = "notify"
    /\ UNCHANGED << world_id_root, is_synced, is_pending, now, chainVars, endpointVars,
                    wakeVars, monitored_txs, propagatorVars, queryVars, auxVars >>

CkNotify ==
    /\ ckPc = "notify"
    /\ notify_one
    /\ ckLog' = Append(ckLog, "notify")
    /\ ckPc' = "tick"
    /\ UNCHANGED << world_id_root, is_synced, is_pending, now, storeVars, chainVars,
                    endpointVars, monitored_txs, propagatorVars, queryVars, auxVars >>

(***************************************************************************)
(* The propagator loop, task_monitor/tasks/propagate_root.rs.              *)
(* prRead is the status the current iteration read, "none" before it read. *)
(***************************************************************************)
\* the awaited form of the wait: suspend until a permit is stored, take it
notified_awaited ==
    /\ wake_up_notify
    /\ wake_up_notify' = FALSE

\* line 12: `_ = wake_up_notify.notified();` builds the future and drops it
\* unpolled: nothing is awaited and the stored permit is left in place
notified ==
    /\ wake_up_notify' = wake_up_notify

propagate_root_branch_always(unsynced) == "propagate"

\* lines 18-20
propagate_root_branch(unsynced) ==
    IF ~unsynced THEN "notified" ELSE "propagate"

PrNotified ==
    /\ prPc = "notified"
    /\ notified
    /\ prPc' = "check_unsynced"
    /\ prRead' = "none"
    /\ iterSinceWake' = TRUE
    /\ prLog' = << >>
    /\ UNCHANGED prSlept
    /\ UNCHANGED << is_unsynced, tx_id, everRaised, callsAfterWake, now,
                    storeVars, chainVars, endpointVars, monitored_txs,
                    checkerVars, queryVars, auxVars >>

PrCheckUnsynced ==
    /\ prPc = "check_unsynced"
    /\ is_unsynced' = check_if_unsynced(dbRows)
    /\ prRead' = get_db_status(dbRows)
    /\ prPc' = propagate_root_branch(is_unsynced')
    /\ UNCHANGED << prLog, prSlept >>
    /\ UNCHANGED << tx_id, now, storeVars, chainVars, endpointVars, wakeVars,
                    monitored_txs, checkerVars, queryVars, auxVars >>

PrPropagate ==
    /\ prPc = "propagate"
    /\ LET r == BridgeProcessor_propagate_root(pending, nextNonce)
       IN  /\ tx_id' = r.id
           /\ pending' = r.pending
           /\ nextNonce' = r.nextNonce
    /\ callsAfterWake' = IF iterSinceWake THEN callsAfterWake + 1
                                          ELSE callsAfterWake
    /\ prPc' = "send"
    /\ prLog' = Append(prLog, "propagate")
    /\ prSlept' = FALSE
    /\ UNCHANGED << is_unsynced, prRead, wake_up_notify, everRaised,
                    iterSinceWake, now,
                    storeVars, chainVars, monitored_txs, checkerVars,
                    queryVars, auxVars >>

\* signing or broadcast fails: `?` ends the task, nothing was recorded
PrPropagateFail ==
    /\ prPc = "propagate"
    /\ callsAfterWake' = IF iterSinceWake THEN callsAfterWake + 1
                                          ELSE callsAfterWake
    /\ prPc' = "failed"
    /\ prLog' = Append(prLog, "propagate")
    /\ prSlept' = FALSE
    /\ UNCHANGED << is_unsynced, prRead, tx_id, wake_up_notify, everRaised,
                    iterSinceWake, now, storeVars, chainVars, endpointVars, monitored_txs,
                    checkerVars, queryVars, auxVars >>

\* (the id is not forwarded to the mining consumer)
PrSend_skipped ==
    /\ prPc = "send"
    /\ UNCHANGED monitored_txs
    /\ prPc' = "mark_pending"
    /\ UNCHANGED << prLog, prSlept >>
    /\ UNCHANGED << is_unsynced, prRead, tx_id, now, storeVars, chainVars,
                    endpointVars, wakeVars, checkerVars, queryVars, auxVars >>

PrSend ==
    /\ prPc = "send"
    /\ Len(monitored_txs) < MaxChan
    /\ monitored_txs' = Append(monitored_txs, tx_id)
    /\ prPc' = "mark_pending"
    /\ prLog' = Append(prLog, "send")
    /\ UNCHANGED prSlept
    /\ UNCHANGED << is_unsynced, prRead, tx_id, now, storeVars, chainVars,
                    endpointVars, wakeVars, checkerVars, queryVars, auxVars >>

PrMarkPending ==
    /\ prPc = "mark_pending"
    /\ mark_status_as_pending
    /\ prPc' = "sleep"
    /\ prLog' = Append(prLog, "pending")
    /\ UNCHANGED prSlept
    /\ UNCHANGED << is_unsynced, prRead, tx_id, now, chainVars, endpointVars,
                    wakeVars, monitored_txs, checkerVars, queryVars, auxVars >>

PrSleep ==
    /\ prPc = "sleep"
    /\ prPc' = "notified"
    /\ prLog' = Append(prLog, "sleep")
    /\ prSlept' = TRUE
    /\ UNCHANGED << is_unsynced, prRead, tx_id, now, storeVars, chainVars,
                    endpointVars, wakeVars, monitored_txs, checkerVars,
                    queryVars, auxVars >>

(***************************************************************************)
(* The environment: the two chains, the mining consumer and the clock.     *)
(***************************************************************************)
\* a new root is recorded on the primary chain's registry; roots are compared
\* by equality only, so the fresh root is taken to be the next unused value
NewRoot(r) ==
    /\ r = worldIdLatest + 1
    /\ canonRoot[r] = ZeroRoot
    /\ worldIdLatest' = r
    /\ canonRoot' = [ canonRoot EXCEPT ![r] = r ]
    /\ UNCHANGED << scrollLatest, rootHistory, included, now, storeVars,
                    endpointVars, wakeVars, monitored_txs, checkerVars,
                    propagatorVars, queryVars, auxVars >>

\* the next broadcast propagation transaction is included: the secondary
\* registry receives the primary's latest root, the root it replaces is
\* stamped as superseded
ChainInclude(id) ==
    /\ id \in 1 .. nextNonce
    /\ id \notin included
    /\ \A lower \in 1 .. (id - 1) : lower \in included
    /\ included' = included \cup { id }
    /\ scrollLatest' = worldIdLatest
    /\ rootHistory' = IF scrollLatest # worldIdLatest
                      THEN [ rootHistory EXCEPT ![scrollLatest] = now ]
                      ELSE rootHistory
    /\ UNCHANGED << worldIdLatest, canonRoot, now, storeVars, endpointVars,
                    wakeVars, monitored_txs, checkerVars, propagatorVars,
                    queryVars, auxVars >>

\* the mining consumer takes the oldest forwarded id once mine(id) resolves it
MineTx ==
    /\ monitored_txs # << >>
    /\ WriteProvider_mine_transaction(Head(monitored_txs))
    /\ pending' = WriteProvider_mined(pending, Head(monitored_txs))
    /\ monitored_txs' = Tail(monitored_txs)
    /\ UNCHANGED << nextNonce, now, storeVars, chainVars, wakeVars,
                    checkerVars, propagatorVars, queryVars, auxVars >>

(***************************************************************************)
(* Processor::await_clean_slate, processor/mod.rs 47-57: a public method   *)
(* of the processor that neither loop calls.  It lists the pending         *)
(* transactions once and then asks mine for each of them in turn, dropping *)
(* every answer; the channel to the mining consumer is not touched.  (An   *)
(* error answer to the listing returns at once and leaves everything as it *)
(* is.)                                                                    *)
(***************************************************************************)
\* line 49: fetch_pending_identities().await?; an empty list returns Ok(())
AwaitCleanSlateFetch ==
    /\ acsPc = "idle"
    /\ pending_identities' = WriteProvider_fetch_pending_transactions(pending)
    /\ acsPc' = IF pending_identities' = << >> THEN "idle" ELSE "mine"
    /\ UNCHANGED << now, storeVars, chainVars, endpointVars, wakeVars,
                    monitored_txs, checkerVars, propagatorVars, queryVars,
                    scanVars, connVars >>

\* lines 51-55: drop(mine_transaction(id).await) for the next listed id:
\* either mine answers and a resolved entry has left the pending set, or it
\* answers with an error, which is dropped like every answer, and the entry
\* stays; line 56: Ok(()) after the last one
AwaitCleanSlateMine ==
    /\ acsPc = "mine"
    /\ \/ pending' = WriteProvider_mined(pending, Head(pending_identities))
       \/ pending' = pending
    /\ pending_identities' = Tail(pending_identities)
    /\ acsPc' = IF pending_identities' = << >> THEN "idle" ELSE "mine"
    /\ UNCHANGED << nextNonce, now, storeVars, chainVars, wakeVars,
                    monitored_txs, checkerVars, propagatorVars, queryVars,
                    scanVars, connVars >>

ClockTick ==
    /\ now < MaxTime
    /\ now' = now + 1
    /\ UNCHANGED << storeVars, chainVars, endpointVars, wakeVars,
                    monitored_txs, checkerVars, propagatorVars, queryVars, auxVars >>

(***************************************************************************)
(* The block scanner (contracts/scanner.rs) as processor/mod.rs builds it  *)
(* and calls it.  scanner is the cursor {lastScannedBlock, windowSize,     *)
(* confirmationOffset}; scLock is the tokio Mutex around it, held by a     *)
(* caller of fetch_bridge_logs or free; scRange is each caller's range in  *)
(* flight, scResult the latest answer given.  scRanges lists the ranges    *)
(* of the successful fetches in order, scRetryFrom remembers the first     *)
(* block of the latest fetch that did not complete.                        *)
(***************************************************************************)
Min(a, b) == IF a <= b THEN a ELSE b

ScanCursor(last, window, offset) ==
    [ lastScannedBlock |-> last, windowSize |-> window,
      confirmationOffset |-> offset ]

\* "new at latest": the cursor at the chain head less the offset, which the
\* constructor is not given and is still zero
BlockScanner_new_latest(head, window_size) ==
    LET offset == 0
    IN  ScanCursor(head - offset, window_size, offset)

\* the offset adjustment applied after construction
BlockScanner_with_offset(sc, chain_head_offset) ==
    [ sc EXCEPT !.confirmationOffset = chain_head_offset ]

\* BridgeProcessor::new: new_latest(client, scanning_window_size)
\*                          .with_offset(scanning_chain_head_offset)
BridgeProcessor_new(head, window_size, chain_head_offset) ==
    BlockScanner_with_offset(BlockScanner_new_latest(head, window_size),
                             chain_head_offset)

\* next, step 2
target_end(sc, head) == head - sc.confirmationOffset

\* (the range starts at the cursor itself)
scan_from_cursor(sc) == sc.lastScannedBlock

\* next, step 3
scan_from(sc) == sc.lastScannedBlock + 1

scan_to(sc, head) ==
    Min(target_end(sc, head), scan_from(sc) + sc.windowSize - 1)

\* next, step 5
scan_succeeded(sc, to) == [ sc EXCEPT !.lastScannedBlock = to ]

\* (the cursor moves although the fetch failed)
scan_failed_advances(sc, to) == [ sc EXCEPT !.lastScannedBlock = to ]

\* next, step 4
scan_failed(sc, to) == sc

ScanAnswer(kind, from, to, target) ==
    [ kind |-> kind, from |-> from, to |-> to, target |-> target ]

\* the answer as handed to the caller c
AnswerTo(c, answer) == [ caller |-> c ] @@ answer

NoAnswer == ScanAnswer("none", NoBlock, NoBlock, NoBlock)

ScanIdle ==
    /\ chainHead = 0
    /\ scanner = ScanCursor(0, 1, 0)
    /\ scLock = NoCaller
    /\ scPc = [ c \in Callers |-> "idle" ]
    /\ scRange = [ c \in Callers |-> NoAnswer ]
    /\ scResult = NoAnswer
    /\ scRanges = << >>
    /\ scRetryFrom = NoBlock

(***************************************************************************)
(* ScrollBridge::new (contracts/mod.rs).  connIn holds the configuration   *)
(* and what the node answers to each request of the constructor:           *)
(*   network     whether config.network is there                           *)
(*   bridge_code get_code at scroll_bridge_address: "code", "empty", "err" *)
(*   owner       abi.owner(): an address, or CallFailed                    *)
(*   signer      ethereum.address()                                        *)
(*   scroll_addr abi.scroll_world_id_address(): "ok" or "err"              *)
(*   scroll_code get_code at that address: "code", "empty", "err"          *)
(*   world_addr  abi.world_id_address(): "ok" or "err"                     *)
(* connLog lists the error! lines written, connResult is "ok" (the oracle  *)
(* was built), "err" (an Err was returned) or "panic".                     *)
(***************************************************************************)
CodeAnswers == { "code", "empty", "err" }
CallAnswers == { "ok", "err" }

ConnInputs ==
    [ network : BOOLEAN, bridge_code : CodeAnswers,
      owner : Addresses \cup { CallFailed }, signer : Addresses,
      scroll_addr : CallAnswers, scroll_code : CodeAnswers,
      world_addr : CallAnswers ]

\* lines 50-55 and 80-85: an empty code is logged, nothing else
code_check(code, line) ==
    IF code = "empty" THEN << line >> ELSE << >>

\* (the owner is not compared with the signer)
owner_check_skipped(owner, signer) ==
    "continue"

\* lines 64-68
owner_check(owner, signer) ==
    IF owner # signer THEN "panic" ELSE "continue"

ConnIdle ==
    /\ connIn = [ network |-> FALSE, bridge_code |-> "code", owner |-> 1,
                  signer |-> 1, scroll_addr |-> "ok", scroll_code |-> "code",
                  world_addr |-> "ok" ]
    /\ connPc = "idle"
    /\ connLog = << >>
    /\ connResult = "none"

(***************************************************************************)
(* Spec: the scheduler after a first boot.  Neither loop reads the clock,  *)
(* so Spec keeps it at the boot instant; the timestamps of the store are   *)
(* exercised under SpecStore, where the clock advances.                    *)
(***************************************************************************)
LoopsIdle ==
    /\ wake_up_notify = FALSE
    /\ ckPc = "start"
    /\ world_id_root = NoRoot
    /\ is_synced = FALSE
    /\ is_pending = FALSE
    /\ ckLog = << >>
    /\ prPc = "notified"
    /\ is_unsynced = FALSE
    /\ prRead = "none"
    /\ tx_id = NoTx
    /\ prLog = << >>
    /\ prSlept = TRUE
    /\ everRaised = FALSE
    /\ iterSinceWake = FALSE
    /\ callsAfterWake = 0

SchedulerIdle ==
    /\ monitored_txs = << >>
    /\ LoopsIdle

SlateIdle ==
    /\ acsPc = "idle"
    /\ pending_identities = << >>

EndpointIdle ==
    /\ pending = {}
    /\ nextNonce = 0
    /\ included = {}
    /\ SlateIdle

QueryIdle ==
    /\ qRoot = NoQuery
    /\ qResult = FALSE
    /\ qPc = "idle"
    /\ root_timestamp = 0
    /\ qSeen = << >>

Init ==
    /\ now = 1
    /\ dbRows = Database_initialize(<< >>, 1)
    /\ lastTo = "none"
    /\ initCalls = 1
    /\ insertCalls = 0
    /\ readResult = NoRow
    /\ worldIdLatest = 1
    /\ canonRoot = [ r \in Roots |-> IF r = 1 THEN 1 ELSE ZeroRoot ]
    /\ scrollLatest \in { ZeroRoot, 1 }
    /\ rootHistory = [ r \in Roots |-> 0 ]
    /\ EndpointIdle
    /\ SchedulerIdle
    /\ QueryIdle
    /\ ScanIdle
    /\ ConnIdle

Next ==
    \/ CkTick
    \/ CkWorldIdRoot
    \/ CkCheckSynced
    \/ CkCheckPending
    \/ CkMarkSynced
    \/ CkMarkUnsynced
    \/ CkNotify
    \/ PrNotified
    \/ PrCheckUnsynced
    \/ PrPropagate
    \/ PrPropagateFail
    \/ PrSend
    \/ PrMarkPending
    \/ PrSleep
    \/ \E r \in Roots : NewRoot(r)
    \/ \E id \in TxIds : ChainInclude(id)
    \/ MineTx

Spec == Init /\ [][Next]_vars

(***************************************************************************)
(* SpecLive: the scheduler without RPC or store errors, both loops and the *)
(* mining consumer scheduled fairly (each is a spawned task of the         *)
(* runtime; the interval timer and the sleep always expire).  The chains   *)
(* are free: a broadcast transaction may wait for inclusion for ever.      *)
(* A boot may follow an earlier run of the service: the row then holds     *)
(* whatever that run left, the endpoint's in-memory pending set is empty   *)
(* again, and a transaction of the earlier run may still be waiting for    *)
(* inclusion.                                                              *)
(***************************************************************************)
InitRestart ==
    /\ now = 1
    /\ \E status \in BridgeStatus :
          dbRows = update_server_status(initialize_server(<< >>, 1), status, 1)
    /\ lastTo = "none"
    /\ initCalls = 1
    /\ insertCalls = 0
    /\ readResult = NoRow
    /\ worldIdLatest = 1
    /\ canonRoot = [ r \in Roots |-> IF r = 1 THEN 1 ELSE ZeroRoot ]
    /\ scrollLatest \in { ZeroRoot, 1 }
    /\ rootHistory = [ r \in Roots |-> 0 ]
    /\ pending = {}
    /\ nextNonce \in { 0, 1 }
    /\ included = {}
    /\ SlateIdle
    /\ SchedulerIdle
    /\ QueryIdle
    /\ ScanIdle
    /\ ConnIdle

CheckerRun ==
    \/ CkTick
    \/ CkWorldIdRoot
    \/ CkCheckSynced
    \/ CkCheckPending
    \/ CkMarkSynced
    \/ CkMarkUnsynced
    \/ CkNotify

PropagatorRun ==
    \/ PrNotified
    \/ PrCheckUnsynced
    \/ PrPropagate
    \/ PrSend
    \/ PrMarkPending
    \/ PrSleep

NextLive ==
    \/ CheckerRun
    \/ PropagatorRun
    \/ MineTx
    \/ \E r \in Roots : NewRoot(r)
    \/ \E id \in TxIds : ChainInclude(id)

\* the three tasks keep running; nothing is assumed of the chains
Fairness ==
    /\ WF_vars(CheckerRun)
    /\ WF_vars(PropagatorRun)
    /\ WF_vars(MineTx)

SpecLive == InitRestart /\ [][NextLive]_vars /\ Fairness

(***************************************************************************)
(* SpecSlate: await_clean_slate called, any number of times, on an         *)
(* endpoint in any state its public interface can leave it in              *)
(* (Ethereum::send_transaction takes only_once from its caller, so the     *)
(* pending set may hold several transactions), while the chain includes    *)
(* transactions and the mining consumer drains the channel.                *)
(***************************************************************************)
InitSlate ==
    /\ now = 1
    /\ dbRows = Database_initialize(<< >>, 1)
    /\ lastTo = "none"
    /\ initCalls = 1
    /\ insertCalls = 0
    /\ readResult = NoRow
    /\ worldIdLatest = 1
    /\ canonRoot = [ r \in Roots |-> IF r = 1 THEN 1 ELSE ZeroRoot ]
    /\ scrollLatest \in { ZeroRoot, 1 }
    /\ rootHistory = [ r \in Roots |-> 0 ]
    /\ nextNonce \in 0 .. MaxTx
    /\ pending \in SUBSET (1 .. nextNonce)
    /\ included = {}
    /\ SlateIdle
    /\ monitored_txs \in
          { q \in { << >>, WriteProvider_fetch_pending_transactions(pending) } :
               Len(q) <= MaxChan }
    /\ LoopsIdle
    /\ QueryIdle
    /\ ScanIdle
    /\ ConnIdle

NextSlate ==
    \/ AwaitCleanSlateFetch
    \/ AwaitCleanSlateMine
    \/ \E id \in TxIds : ChainInclude(id)
    \/ MineTx

SpecSlate == InitSlate /\ [][NextSlate]_vars

(***************************************************************************)
(* SpecStore: the status store from the empty table, under every sequence  *)
(* of initialize, transition and read requests and of direct calls of      *)
(* initialize_server.                                                      *)
(***************************************************************************)
StInitialize ==
    /\ initCalls < MaxInit
    /\ initCalls' = initCalls + 1
    /\ dbRows' = Database_initialize(dbRows, now)
    /\ UNCHANGED << lastTo, readResult, insertCalls, now, chainVars, endpointVars,
                    wakeVars, monitored_txs, checkerVars, propagatorVars,
                    queryVars, auxVars >>

\* DatabaseQuery::initialize_server called on its own: the INSERT has no
\* existence test, a table that holds the row gets a second one
StInitializeServer ==
    /\ insertCalls < MaxInsert
    /\ insertCalls' = insertCalls + 1
    /\ dbRows' = initialize_server(dbRows, now)
    /\ UNCHANGED << lastTo, readResult, initCalls, now, chainVars, endpointVars,
                    wakeVars, monitored_txs, checkerVars, propagatorVars,
                    queryVars, auxVars >>

\* update_server_status has no existence test: on the empty table the UPDATE
\* matches no row and the call still answers Ok(())
StTransition(to) ==
    /\ Transition(to)
    /\ UNCHANGED << now, chainVars, endpointVars, wakeVars, monitored_txs,
                    checkerVars, propagatorVars, queryVars, auxVars >>

\* get_service_status answers None on the empty table
StRead ==
    /\ readResult' = get_service_status(dbRows)
    /\ UNCHANGED << dbRows, lastTo, initCalls, insertCalls, now, chainVars, endpointVars, wakeVars,
                    monitored_txs, checkerVars, propagatorVars, queryVars, auxVars >>

InitStore ==
    /\ now = 1
    /\ dbRows = << >>
    /\ lastTo = "none"
    /\ initCalls = 0
    /\ insertCalls = 0
    /\ readResult = NoRow
    /\ worldIdLatest = ZeroRoot
    /\ scrollLatest = ZeroRoot
    /\ canonRoot = [ r \in Roots |-> ZeroRoot ]
    /\ rootHistory = [ r \in Roots |-> 0 ]
    /\ EndpointIdle
    /\ SchedulerIdle
    /\ QueryIdle
    /\ ScanIdle
    /\ ConnIdle

NextStore ==
    \/ StInitialize
    \/ StInitializeServer
    \/ \E to \in BridgeStatus : StTransition(to)
    \/ StRead
    \/ ClockTick

SpecStore == InitStore /\ [][NextStore]_vars

(***************************************************************************)
(* SpecOracle: is_root_mined asked about every root in every state of the  *)
(* two registries, one action per request it awaits, while the registries  *)
(* go on changing.  qSeen holds the registries as the call found them.     *)
(***************************************************************************)
\* lines 132-136: query_root(root) is awaited; a zero answer returns false
OracleQueryRoot(root) ==
    /\ qPc \in { "idle", "done", "failed" }
    /\ qRoot' = root
    /\ qSeen' = Registries
    /\ root_timestamp' = 0
    /\ qResult' = FALSE
    /\ qPc' = IF is_zero(query_root(root)) THEN "done" ELSE "root_history"
    /\ UNCHANGED << now, storeVars, chainVars, endpointVars, wakeVars,
                    monitored_txs, checkerVars, propagatorVars, auxVars >>

\* line 138: root_history(root) is awaited
OracleRootHistory ==
    /\ qPc = "root_history"
    /\ root_timestamp' = rootHistory[qRoot]
    /\ qPc' = "latest_root"
    /\ UNCHANGED << qRoot, qResult, qSeen, now, storeVars, chainVars,
                    endpointVars, wakeVars, monitored_txs, checkerVars,
                    propagatorVars, auxVars >>

\* lines 142-150: latest_root is awaited and the answer is computed
OracleLatestRoot ==
    /\ qPc = "latest_root"
    /\ qResult' = is_root_mined(qRoot, root_timestamp, get_scroll_latest_root)
    /\ qPc' = "done"
    /\ UNCHANGED << qRoot, root_timestamp, qSeen, now, storeVars, chainVars,
                    endpointVars, wakeVars, monitored_txs, checkerVars,
                    propagatorVars, auxVars >>

\* any of the three requests answers with an error: `?` returns it
OracleQueryFail(root) ==
    /\ \/ qPc \in { "idle", "done", "failed" } /\ qRoot' = root /\ qSeen' = Registries
       \/ qPc \in { "root_history", "latest_root" } /\ qRoot' = qRoot /\ qSeen' = qSeen
    /\ root_timestamp' = 0
    /\ qResult' = FALSE
    /\ qPc' = "failed"
    /\ UNCHANGED << now, storeVars, chainVars, endpointVars, wakeVars,
                    monitored_txs, checkerVars, propagatorVars, auxVars >>

InitOracle ==
    /\ now = 1
    /\ dbRows = << >>
    /\ lastTo = "none"
    /\ initCalls = 0
    /\ insertCalls = 0
    /\ readResult = NoRow
    /\ canonRoot \in { f \in [ Roots -> Roots ] :
                         \A r \in Roots : f[r] \in { ZeroRoot, r } }
    /\ worldIdLatest \in { r \in Roots : canonRoot[r] = r }
    /\ scrollLatest \in Roots
    /\ rootHistory \in [ Roots -> { 0, now } ]
    /\ nextNonce \in { 0, 1 }
    /\ pending = 1 .. nextNonce
    /\ included = {}
    /\ SlateIdle
    /\ SchedulerIdle
    /\ QueryIdle
    /\ ScanIdle
    /\ ConnIdle

NextOracle ==
    \/ \E root \in Roots : OracleQueryRoot(root)
    \/ OracleRootHistory
    \/ OracleLatestRoot
    \/ \E root \in Roots : OracleQueryFail(root)
    \/ \E r \in Roots : NewRoot(r)
    \/ \E id \in TxIds : ChainInclude(id)

SpecOracle == InitOracle /\ [][NextOracle]_vars

(***************************************************************************)
(* SpecScan: one scanner after BridgeProcessor::new, called through        *)
(* fetch_bridge_logs by concurrent callers while the chain grows.          *)
(* (fetch_scroll_logs is the same code over the second scanner.)           *)
(***************************************************************************)
ScanUnchanged ==
    UNCHANGED << now, storeVars, chainVars, endpointVars, wakeVars,
                 monitored_txs, checkerVars, propagatorVars, queryVars,
                 connVars, slateVars >>

\* fetch_bridge_logs is called: the caller goes on to ask for the lock
FetchCall(c) ==
    /\ scPc[c] = "idle"
    /\ scPc' = [ scPc EXCEPT ![c] = "lock" ]
    /\ UNCHANGED << chainHead, scanner, scLock, scRange, scResult, scRanges,
                    scRetryFrom >>
    /\ ScanUnchanged

\* (the lock is taken whether or not another caller holds it)
FetchLock_unguarded(c) ==
    /\ scPc[c] = "lock"
    /\ scLock' = c
    /\ scPc' = [ scPc EXCEPT ![c] = "next" ]
    /\ UNCHANGED << chainHead, scanner, scRange, scResult, scRanges,
                    scRetryFrom >>
    /\ ScanUnchanged

\* let mut bridge_scanner = self.bridge_scanner.lock().await;
\* the caller waits until the lock is free and then holds it
FetchLock(c) ==
    /\ scPc[c] = "lock"
    /\ scLock = NoCaller
    /\ scLock' = c
    /\ scPc' = [ scPc EXCEPT ![c] = "next" ]
    /\ UNCHANGED << chainHead, scanner, scRange, scResult, scRanges,
                    scRetryFrom >>
    /\ ScanUnchanged

\* next, steps 1-3: read the head; nothing confirmed beyond the cursor
\* answers empty, else the range is fixed and the fetch begins
ScanNext(c) ==
    /\ scPc[c] = "next"
    /\ LET target == target_end(scanner, chainHead)
       IN  IF target <= scanner.lastScannedBlock
           THEN /\ scResult' = AnswerTo(c, ScanAnswer("empty", NoBlock, NoBlock,
                                                      target))
                /\ scPc' = [ scPc EXCEPT ![c] = "idle" ]
                /\ scLock' = NoCaller
                /\ UNCHANGED scRange
           ELSE /\ scRange' = [ scRange EXCEPT ![c] =
                                  ScanAnswer("range", scan_from(scanner),
                                             scan_to(scanner, chainHead), target) ]
                /\ scPc' = [ scPc EXCEPT ![c] = "get_logs" ]
                /\ UNCHANGED << scLock, scResult >>
    /\ UNCHANGED << chainHead, scanner, scRanges, scRetryFrom >>
    /\ ScanUnchanged

\* next, step 1: the read of the chain head fails, `?` returns the error;
\* no range was fixed, the cursor stays, the guard is dropped
ScanHeadFailed(c) ==
    /\ scPc[c] = "next"
    /\ scResult' = AnswerTo(c, ScanAnswer("ScanError", NoBlock, NoBlock, NoBlock))
    /\ scPc' = [ scPc EXCEPT ![c] = "idle" ]
    /\ scLock' = NoCaller
    /\ UNCHANGED << chainHead, scanner, scRange, scRanges, scRetryFrom >>
    /\ ScanUnchanged

\* next, step 5, and the return of fetch_bridge_logs (the guard is dropped)
ScanFetched(c) ==
    /\ scPc[c] = "get_logs"
    /\ scanner' = scan_succeeded(scanner, scRange[c].to)
    /\ scResult' = AnswerTo(c, ScanAnswer("logs", scRange[c].from, scRange[c].to,
                                        scRange[c].target))
    /\ scRanges' = Append(scRanges, << scRange[c].from, scRange[c].to >>)
    /\ scRetryFrom' = NoBlock
    /\ scRange' = [ scRange EXCEPT ![c] = NoAnswer ]
    /\ scPc' = [ scPc EXCEPT ![c] = "idle" ]
    /\ scLock' = NoCaller
    /\ UNCHANGED chainHead
    /\ ScanUnchanged

\* next, step 4: the fetch fails, `?` returns the error
ScanFetchFailed(c) ==
    /\ scPc[c] = "get_logs"
    /\ scanner' = scan_failed(scanner, scRange[c].to)
    /\ scResult' = AnswerTo(c, ScanAnswer("ScanError", scRange[c].from, scRange[c].to,
                                        scRange[c].target))
    /\ scRetryFrom' = scRange[c].from
    /\ scRange' = [ scRange EXCEPT ![c] = NoAnswer ]
    /\ scPc' = [ scPc EXCEPT ![c] = "idle" ]
    /\ scLock' = NoCaller
    /\ UNCHANGED << chainHead, scRanges >>
    /\ ScanUnchanged

\* the call is dropped while the fetch is awaited: no answer, guard dropped
ScanAbandoned(c) ==
    /\ scPc[c] = "get_logs"
    /\ scResult' = AnswerTo(c, ScanAnswer("abandoned", scRange[c].from, scRange[c].to,
                                        scRange[c].target))
    /\ scRetryFrom' = scRange[c].from
    /\ scRange' = [ scRange EXCEPT ![c] = NoAnswer ]
    /\ scPc' = [ scPc EXCEPT ![c] = "idle" ]
    /\ scLock' = NoCaller
    /\ UNCHANGED << chainHead, scanner, scRanges >>
    /\ ScanUnchanged

\* the chain grows by a block
HeadAdvance ==
    /\ chainHead < MaxHead
    /\ chainHead' = chainHead + 1
    /\ UNCHANGED << scanner, scLock, scPc, scRange, scResult, scRanges,
                    scRetryFrom >>
    /\ ScanUnchanged

InitScan ==
    /\ now = 1
    /\ dbRows = << >>
    /\ lastTo = "none"
    /\ initCalls = 0
    /\ insertCalls = 0
    /\ readResult = NoRow
    /\ worldIdLatest = ZeroRoot
    /\ scrollLatest = ZeroRoot
    /\ canonRoot = [ r \in Roots |-> ZeroRoot ]
    /\ rootHistory = [ r \in Roots |-> 0 ]
    /\ EndpointIdle
    /\ SchedulerIdle
    /\ QueryIdle
    /\ chainHead \in 0 .. MaxBootHead
    /\ \E window_size \in 1 .. MaxWindow :
         \E chain_head_offset \in 0 .. MaxOffset :
           scanner = BridgeProcessor_new(chainHead, window_size,
                                         chain_head_offset)
    /\ scLock = NoCaller
    /\ scPc = [ c \in Callers |-> "idle" ]
    /\ scRange = [ c \in Callers |-> NoAnswer ]
    /\ scResult = NoAnswer
    /\ scRanges = << >>
    /\ scRetryFrom = NoBlock
    /\ ConnIdle

NextScan ==
    \/ \E c \in Callers : FetchCall(c)
    \/ \E c \in Callers : FetchLock(c)
    \/ \E c \in Callers : ScanNext(c)
    \/ \E c \in Callers : ScanHeadFailed(c)
    \/ \E c \in Callers : ScanFetched(c)
    \/ \E c \in Callers : ScanFetchFailed(c)
    \/ \E c \in Callers : ScanAbandoned(c)
    \/ HeadAdvance

SpecScan == InitScan /\ [][NextScan]_vars

(***************************************************************************)
(* SpecConnect: ScrollBridge::new run once on every configuration and      *)
(* every combination of answers, one action per request it awaits.         *)
(***************************************************************************)
ConnUnchanged ==
    UNCHANGED << now, storeVars, chainVars, endpointVars, wakeVars,
                 monitored_txs, checkerVars, propagatorVars, queryVars,
                 scanVars, slateVars, connIn >>

ConnEnds(result) ==
    /\ connResult' = result
    /\ connPc' = "done"

\* lines 44-46
ConnConfig ==
    /\ connPc = "start"
    /\ IF connIn.network
       THEN connPc' = "get_code" /\ UNCHANGED connResult
       ELSE ConnEnds("err")
    /\ UNCHANGED connLog
    /\ ConnUnchanged

\* lines 48-56
ConnBridgeCode ==
    /\ connPc = "get_code"
    /\ IF connIn.bridge_code = "err"
       THEN ConnEnds("err") /\ UNCHANGED connLog
       ELSE /\ connLog' = connLog \o code_check(connIn.bridge_code, "no_code_bridge")
            /\ connPc' = "owner"
            /\ UNCHANGED connResult
    /\ ConnUnchanged

\* lines 64-68
ConnOwner ==
    /\ connPc = "owner"
    /\ IF connIn.owner = CallFailed
       THEN ConnEnds("err") /\ UNCHANGED connLog
       ELSE IF owner_check(connIn.owner, connIn.signer) = "panic"
            THEN /\ connLog' = Append(connLog, "not_owner")
                 /\ ConnEnds("panic")
            ELSE /\ connPc' = "scroll_world_id"
                 /\ UNCHANGED << connLog, connResult >>
    /\ ConnUnchanged

\* line 77: abi.scroll_world_id_address().call().await?
ConnScrollWorldIdAddress ==
    /\ connPc = "scroll_world_id"
    /\ IF connIn.scroll_addr = "err"
       THEN ConnEnds("err")
       ELSE connPc' = "scroll_world_id_code" /\ UNCHANGED connResult
    /\ UNCHANGED connLog
    /\ ConnUnchanged

\* lines 79-85: get_code(scrollWorldIdAddress).await? and the check of it
ConnScrollWorldIdCode ==
    /\ connPc = "scroll_world_id_code"
    /\ IF connIn.scroll_code = "err"
       THEN ConnEnds("err") /\ UNCHANGED connLog
       ELSE /\ connLog' = connLog \o code_check(connIn.scroll_code, "no_code_scroll_world_id")
            /\ connPc' = "world_id"
            /\ UNCHANGED connResult
    /\ ConnUnchanged

\* lines 92-106
ConnWorldId ==
    /\ connPc = "world_id"
    /\ IF connIn.world_addr = "err"
       THEN ConnEnds("err")
       ELSE ConnEnds("ok")
    /\ UNCHANGED connLog
    /\ ConnUnchanged

InitConnect ==
    /\ now = 1
    /\ dbRows = << >>
    /\ lastTo = "none"
    /\ initCalls = 0
    /\ insertCalls = 0
    /\ readResult = NoRow
    /\ worldIdLatest = ZeroRoot
    /\ scrollLatest = ZeroRoot
    /\ canonRoot = [ r \in Roots |-> ZeroRoot ]
    /\ rootHistory = [ r \in Roots |-> 0 ]
    /\ EndpointIdle
    /\ SchedulerIdle
    /\ QueryIdle
    /\ ScanIdle
    /\ connIn \in ConnInputs
    /\ connPc = "start"
    /\ connLog = << >>
    /\ connResult = "none"

NextConnect ==
    \/ ConnConfig
    \/ ConnBridgeCode
    \/ ConnOwner
    \/ ConnScrollWorldIdAddress
    \/ ConnScrollWorldIdCode
    \/ ConnWorldId

SpecConnect == InitConnect /\ [][NextConnect]_vars

(***************************************************************************)
(* Properties.                                                             *)
(***************************************************************************)
CheckerStep == ckPc' # ckPc
PropagatorStep == prPc' # prPc
Last(seq) == seq[Len(seq)]
IsPrefix(a, b) == Len(a) <= Len(b) /\ \A i \in 1 .. Len(a) : a[i] = b[i]
Forwarded(id) == \E i \in 1 .. Len(monitored_txs) : monitored_txs[i] = id

\* the decision table of the checker: what a tick writes and raises
ExpectedEffects(synced, is_pend) ==
    IF synced /\ is_pend THEN << "Synced" >>
    ELSE IF ~synced /\ ~is_pend THEN << "Unsynced", "notify" >>
    ELSE << >>

C1_TickEffects ==
    /\ ckPc \in { "start", "check_synced", "check_synced_scroll",
                  "check_pending" } => ckLog = << >>
    /\ ckPc \in { "mark_synced", "mark_unsynced", "notify" } =>
          /\ IsPrefix(ckLog, ExpectedEffects(is_synced, is_pending))
          /\ ckLog # ExpectedEffects(is_synced, is_pending)
    /\ ckPc = "tick" => ckLog = ExpectedEffects(is_synced, is_pending)

C1_StepLogged ==
    /\ (dbRows' # dbRows \/ lastTo' # lastTo) =>
          /\ ckLog' = Append(ckLog, lastTo')
          /\ get_db_status(dbRows') = StatusStr(lastTo')
          /\ wake_up_notify' = wake_up_notify
    /\ wake_up_notify' # wake_up_notify =>
          /\ ckLog' = Append(ckLog, "notify")
          /\ wake_up_notify'
    /\ (ckLog' # ckLog /\ ckLog' # << >>) =>
          IF Last(ckLog') = "notify"
          THEN wake_up_notify' /\ dbRows' = dbRows
          ELSE get_db_status(dbRows') = StatusStr(Last(ckLog'))

\* C1: in every checker tick, with is_synced and is_pending as read in that
\* tick, (true,true) writes Synced and raises nothing, (true,false) and
\* (false,true) write and raise nothing, (false,false) writes Unsynced and
\* then raises the wake signal; the checker makes no other write or raise.
C1_DecisionTable ==
    /\ [] C1_TickEffects
    /\ [][CheckerStep => C1_StepLogged]_vars

C1_Witness ==
    /\ ckPc = "tick"
    /\ ~is_synced
    /\ ~is_pending
    /\ ckLog = << "Unsynced", "notify" >>
    /\ get_db_status(dbRows) = "unsynced"
    /\ wake_up_notify

\* C2: in every interleaving of the checker, the propagator and the mining
\* polls, the write endpoint's pending set never holds more than one
\* propagation transaction.
C2_AtMostOnePending == Cardinality(pending) <= 1

C2_Witness ==
    /\ prPc = "mark_pending"
    /\ Len(monitored_txs) = 2
    /\ monitored_txs[1] = monitored_txs[2]
    /\ pending = { tx_id }
    /\ nextNonce = 1

\* C3: a submission with only_once set, made while the transaction the
\* previous submission returned is still pending, returns that same id and
\* leaves the pending set and the nonce as they were.
C3_OnlyOnceReturnsSame ==
    [][ (prPc = "propagate" /\ prPc' = "send" /\ tx_id \in pending) =>
            /\ tx_id' = tx_id
            /\ pending' = pending
            /\ nextNonce' = nextNonce ]_vars

C3_Witness ==
    /\ prPc = "send"
    /\ tx_id \in pending
    /\ Forwarded(tx_id)
    /\ tx_id = nextNonce
    /\ tx_id \notin included

PropagatorEffect ==
    \/ pending' # pending
    \/ nextNonce' # nextNonce
    \/ tx_id' # tx_id
    \/ monitored_txs' # monitored_txs
    \/ dbRows' # dbRows
    \/ lastTo' # lastTo
    \/ callsAfterWake' > callsAfterWake

\* C4: the propagator calls propagate_root in an iteration only if the
\* status it read in that iteration is Unsynced; after reading Pending or
\* Synced it submits nothing, forwards nothing and writes nothing.
C4_OnlyIfUnsynced ==
    /\ [] (prPc \in { "propagate", "send", "mark_pending", "sleep" } =>
              prRead = StatusStr("Unsynced"))
    /\ [][ (PropagatorStep /\ (PropagatorEffect \/ prPc = "propagate")) =>
              prRead = StatusStr("Unsynced") ]_vars

C4_Witness ==
    /\ prPc = "notified"
    /\ prRead = "synced"
    /\ ~is_unsynced
    /\ get_db_status(dbRows) = "synced"
    /\ callsAfterWake = 0

\* C5: the propagator suspends on the wake signal: an iteration begins only
\* by consuming a wake the checker raised, and with no wake pending the
\* propagator takes no step.
C5_SuspendsOnWake ==
    [][ (PropagatorStep /\ prPc = "notified") =>
            (wake_up_notify /\ ~wake_up_notify') ]_vars

\* C6: the raises made while the propagator is busy or sleeping collapse
\* into one pending wake, and the iterations begun after them make one
\* propagate_root call, not more.
C6_OneAttemptPerWake == everRaised => callsAfterWake <= 1

\* the call has answered and the registries are as the call found them
QueryAnswered == qPc = "done" /\ qSeen = Registries

\* C7 as stated: is_root_mined(root) is true whenever root is the current
\* latest root of the secondary registry.
C7_LatestIsMined ==
    (QueryAnswered /\ qRoot = scrollLatest) => qResult

\* C7 amended: is_root_mined(root) is true whenever root is the current
\* latest root of the secondary registry and the canonical registry's
\* recorded root for it is nonzero.
C7_LatestRecordedIsMined ==
    (QueryAnswered /\ qRoot = scrollLatest /\ canonRoot[qRoot] # ZeroRoot)
        => qResult

C7_Witness ==
    /\ QueryAnswered
    /\ qRoot = scrollLatest
    /\ canonRoot[qRoot] # ZeroRoot
    /\ rootHistory[qRoot] = 0
    /\ qResult

\* C8 as stated: is_root_mined(root) is true whenever root's superseded
\* timestamp in the secondary registry's history is nonzero, even if root
\* is no longer the latest root.
C8_SupersededIsMined ==
    (QueryAnswered /\ rootHistory[qRoot] # 0) => qResult

\* C8 amended: is_root_mined(root) is true whenever root's superseded
\* timestamp is nonzero and the canonical registry's recorded root for it is
\* nonzero, even if root is no longer the latest root.
C8_SupersededRecordedIsMined ==
    (QueryAnswered /\ rootHistory[qRoot] # 0 /\ canonRoot[qRoot] # ZeroRoot)
        => qResult

C8_Witness ==
    /\ QueryAnswered
    /\ rootHistory[qRoot] # 0
    /\ canonRoot[qRoot] # ZeroRoot
    /\ qRoot # scrollLatest
    /\ qResult

\* C9: a transition stamps last_synced only when it is to Synced; a
\* transition to Unsynced or Pending changes the status only and leaves
\* last_synced as it was, whatever the row held before.  (On a table
\* without the row a transition writes nothing at all.)
C9_StampOnlyOnSynced ==
    [][ \A to \in BridgeStatus :
          StTransition(to) =>
             LET before == get_service_status(dbRows)
                 after == get_service_status(dbRows')
             IN  IF server_initialized(dbRows)
                 THEN /\ after.status = StatusStr(to)
                      /\ after.last_synced =
                            IF to = "Synced" THEN now ELSE before.last_synced
                 ELSE dbRows' = dbRows ]_vars

C9_Witness ==
    /\ lastTo = "Pending"
    /\ get_service_status(dbRows).status = "pending"
    /\ get_service_status(dbRows).last_synced # NoTimestamp
    /\ get_service_status(dbRows).last_synced < now
    /\ readResult.status = "synced"
    /\ readResult.last_synced = get_service_status(dbRows).last_synced

\* C10: after initialize on an empty store and before any transition, read
\* returns status Unsynced and no last_synced timestamp.
C10_FreshHasNoTimestamp ==
    (readResult # NoRow /\ lastTo = "none") =>
        readResult = ServerStatus("unsynced", NoTimestamp)

C12_EventuallySynced ==
    <>[](RootsEqual) =>
        <>[](get_db_status(dbRows) = StatusStr("Synced"))

(***************************************************************************)
(* C13: when propagate_root fails, the pending set, the channel and the    *)
(* row are left as they were (C13_FailureLeavesState), and the failure     *)
(* does not stop propagation: the propagator loop can still take a step,   *)
(* so a later wake or tick leads to another attempt                        *)
(* (C13_FailureDoesNotStop).                                               *)
(***************************************************************************)
C13_FailureLeavesState ==
    [][ prPc # "failed" /\ prPc' = "failed" =>
          /\ pending' = pending
          /\ monitored_txs' = monitored_txs
          /\ dbRows' = dbRows
      ]_vars

C13_FailureDoesNotStop ==
    prPc = "failed" => ENABLED PropagatorRun

(***************************************************************************)
(* C14: in every reachable state of a scanner, the state right after       *)
(* new_latest and with_offset included, lastScannedBlock never decreases   *)
(* (C14_CursorMonotone), never exceeds chainHead - confirmationOffset      *)
(* (C14_CursorWithinConfirmed), and no scan returns a block beyond         *)
(* chainHead - confirmationOffset as read by that call                     *)
(* (C14_ScanWithinConfirmed).                                              *)
(***************************************************************************)
C14_CursorMonotone ==
    [][ scanner'.lastScannedBlock >= scanner.lastScannedBlock ]_vars

C14_ScanWithinConfirmed ==
    scResult.kind = "logs" =>
        /\ scResult.to <= scResult.target
        /\ scResult.target <= chainHead - scanner.confirmationOffset

C14_CursorWithinConfirmed ==
    scanner.lastScannedBlock <= chainHead - scanner.confirmationOffset

(***************************************************************************)
(* C15: the ranges of the successful scans of one scanner are contiguous   *)
(* (each begins one block after the previous one ended), hence disjoint,   *)
(* each is non-empty and at most windowSize blocks long, and a scan that   *)
(* finds targetEnd <= lastScannedBlock (its read of the head answered)     *)
(* answers empty, without error, and leaves the cursor where it was.       *)
(***************************************************************************)
RangesContiguous(ranges) ==
    \A i \in 1 .. Len(ranges) :
       /\ ranges[i][1] <= ranges[i][2]
       /\ i > 1 => ranges[i][1] = ranges[i - 1][2] + 1

RangesDisjoint(ranges) ==
    \A i, j \in 1 .. Len(ranges) :
       i < j => (ranges[i][1] .. ranges[i][2]) \cap (ranges[j][1] .. ranges[j][2]) = {}

RangesWithinWindow(ranges, window) ==
    \A i \in 1 .. Len(ranges) : ranges[i][2] - ranges[i][1] + 1 <= window

ScanLeftFetch(c) == scPc[c] = "get_logs" /\ scPc'[c] # "get_logs"

C16_FailureKeepsCursor ==
    [][ \A c \in Callers :
          ScanLeftFetch(c) =>
            /\ scResult'.kind \in { "logs", "ScanError", "abandoned" }
            /\ scResult'.kind # "logs" => scanner' = scanner
            /\ (scResult'.kind = "logs" /\ scRetryFrom # NoBlock) =>
                   scResult'.from = scRetryFrom
            /\ scRetryFrom' # NoBlock => scRetryFrom' = scanner'.lastScannedBlock + 1
      ]_vars

\* after an earlier successful scan a fetch has failed: the cursor still
\* stands one block before the range that failed
C16_Witness ==
    /\ Len(scRanges) >= 1
    /\ scResult.kind = "ScanError"
    /\ scRetryFrom = scanner.lastScannedBlock + 1
    /\ scanner.lastScannedBlock = scRanges[Len(scRanges)][2]

(***************************************************************************)
(* C17: ScrollBridge::new never builds the oracle when the signer is not   *)
(* the owner of the bridge contract: once the owner is known and differs   *)
(* it panics.  Missing code at the bridge address or at the scroll world   *)
(* id address is only logged: with the same answers otherwise the          *)
(* constructor succeeds exactly as it does with code in place.             *)
(***************************************************************************)
Logged(line) == \E i \in 1 .. Len(connLog) : connLog[i] = line

AnswersAllowConnect ==
    /\ connIn.network
    /\ connIn.bridge_code # "err"
    /\ connIn.owner = connIn.signer
    /\ connIn.scroll_addr = "ok"
    /\ connIn.scroll_code # "err"
    /\ connIn.world_addr = "ok"

C17_OwnerFatalCodeLogged ==
    /\ connIn.owner # connIn.signer => connResult # "ok"
    /\ connPc = "done" =>
         /\ ( /\ connIn.network
              /\ connIn.bridge_code # "err"
              /\ connIn.owner \in Addresses
              /\ connIn.owner # connIn.signer ) => connResult = "panic"
         /\ AnswersAllowConnect =>
              /\ connResult = "ok"
              /\ connIn.bridge_code = "empty" <=> Logged("no_code_bridge")
              /\ connIn.scroll_code = "empty" <=> Logged("no_code_scroll_world_id")

\* no code at either address, the signer is the owner: both lines were
\* logged and the oracle was built
C17_Witness ==
    /\ connPc = "done"
    /\ connIn.bridge_code = "empty"
    /\ connIn.scroll_code = "empty"
    /\ Logged("no_code_bridge")
    /\ Logged("no_code_scroll_world_id")
    /\ connResult = "ok"

(***************************************************************************)
(* C18: for every root and every state of the registries, is_root_mined    *)
(* answers true exactly when the canonical registry has recorded the root  *)
(* and the secondary registry either stamped it as superseded or has it    *)
(* as its latest root.  In particular the zero root is never mined, and a  *)
(* root recorded nowhere and not latest is not mined.                      *)
(***************************************************************************)
C18_MinedIff ==
    QueryAnswered =>
        /\ qResult <=> ( /\ canonRoot[qRoot] # ZeroRoot
                         /\ (rootHistory[qRoot] # 0 \/ qRoot = scrollLatest) )
        /\ qRoot = ZeroRoot => ~qResult
        /\ ( /\ canonRoot[qRoot] = ZeroRoot
             /\ rootHistory[qRoot] = 0
             /\ qRoot # scrollLatest ) => ~qResult

\* the zero root was asked about while it is the secondary registry's latest
\* root and carries a superseded stamp: the answer is still false
C18_Witness ==
    /\ QueryAnswered
    /\ qRoot = ZeroRoot
    /\ scrollLatest = ZeroRoot
    /\ rootHistory[ZeroRoot] # 0
    /\ ~qResult

(***************************************************************************)
(* C19: in every interleaving the checker never overwrites a stored        *)
(* status of pending with unsynced: the only write the checker makes to a  *)
(* row that reads pending is the transition to synced.                     *)
(***************************************************************************)
C19_CheckerKeepsPending ==
    [][ ( /\ CheckerStep
          /\ get_db_status(dbRows) = StatusStr("Pending")
          /\ dbRows' # dbRows )
        => get_db_status(dbRows') = StatusStr("Synced")
      ]_vars

(***************************************************************************)
(* C20: within one propagator iteration the steps occur in the order       *)
(* propagate_root, forward of the id, transition to pending, sleep.  The   *)
(* row is written pending only after an id was returned and forwarded in   *)
(* that iteration, the forwarded id is the one returned, and a             *)
(* propagate_root call is made only when a sleep has completed since the   *)
(* call before it.                                                         *)
(***************************************************************************)
IterationOrder == << "propagate", "send", "pending", "sleep" >>

C20_IterationOrder ==
    [][ /\ IsPrefix(prLog', IterationOrder)
        /\ (PropagatorStep /\ dbRows' # dbRows) =>
              /\ prLog' = << "propagate", "send", "pending" >>
              /\ get_db_status(dbRows') = StatusStr("Pending")
        /\ Len(monitored_txs') > Len(monitored_txs) =>
              /\ prLog' = << "propagate", "send" >>
              /\ Last(monitored_txs') = tx_id
              /\ tx_id \in TxIds
        /\ (prLog' # prLog /\ prLog' = << "propagate" >>) => prSlept
        /\ (prSlept' /\ ~prSlept) => prLog' = IterationOrder
      ]_vars

\* an iteration has run to the end of its sleep: the call, the forward, the
\* write of pending and the sleep, in that order, with the id in the channel
C20_Witness ==
    /\ prLog = IterationOrder
    /\ prSlept
    /\ prPc = "notified"
    /\ Forwarded(tx_id)
    /\ get_db_status(dbRows) = StatusStr("Pending")

(***************************************************************************)
(* C21: concurrent calls of a log fetch on one scanner never interleave.   *)
(* A caller holds the scanner's lock from before the chain head is read    *)
(* until the cursor has been advanced or the scan has failed, so at most   *)
(* one scan is in flight, the lock is free when none is, and no two        *)
(* answers, to the same caller or to different ones, share a block.        *)
(***************************************************************************)
Scanning(c) == scPc[c] \in { "next", "get_logs" }

C21_ScansSerialized ==
    /\ \A c \in Callers : Scanning(c) <=> scLock = c
    /\ \A c, d \in Callers : (Scanning(c) /\ Scanning(d)) => c = d
    /\ \A c \in Callers :
         scPc[c] = "get_logs" =>
            scRange[c].from = scanner.lastScannedBlock + 1
    /\ RangesDisjoint(scRanges)

\* one caller has received a range; the other, which waited for the lock
\* meanwhile, is now fetching the range that follows it, and the first
\* waits in turn
C21_Witness ==
    /\ scResult.kind = "logs"
    /\ \E c, d \in Callers :
         /\ c # d
         /\ scResult.caller = d
         /\ scPc[d] = "lock"
         /\ scPc[c] = "get_logs"
         /\ scRange[c].from = scResult.to + 1

====
